---- MODULE Spec2Model ----
(***************************************************************************)
(* update-rpm: one run of main() in src/update_rpm/update_rpm.py.          *)
(*                                                                         *)
(* A run resolves a (url, fname) pair with one of four selector            *)
(* strategies, infers the package identity, queries the installed version, *)
(* decides whether to install, downloads the file unless it is cached and  *)
(* calls the package manager.                                              *)
(*                                                                         *)
(* Strings are sequences of tokens.  "/" is the path delimiter; the        *)
(* letters "a", "A", "b", "B" are characters whose case matters; the digits*)
(* and "." make version strings; every other token is an opaque chunk of   *)
(* text that contains no delimiter.  The network, the file system, the rpm *)
(* metadata reader and the package manager are the environment: each       *)
(* action draws their answer from a small set.                             *)
(***************************************************************************)
EXTENDS Integers, Sequences, FiniteSets, TLC

(* ------------------------------ bounds -------------------------------- *)

\* longest repo argument tried, in tokens
MaxRepoLen == 3
\* longest asset list of a GitHub release
MaxAssets == 2
\* longest list of anchors of an HTML page
MaxLinks == 2
\* largest exit status of the install command
MaxStatus == 2

(* ------------------------------ strings ------------------------------- *)

\* all sequences over S of length 0..n
SeqsUpTo(S, n) == UNION {[1..k -> S] : k \in 0..n}

\* index of the last "/" of s, 0 when there is none
LastSlash(s) ==
    LET at == {i \in 1..Len(s) : s[i] = "/"}
    IN  IF at = {} THEN 0 ELSE CHOOSE i \in at : \A j \in at : j <= i

\* index of the first token d of s, 0 when there is none
FirstAt(s, d) ==
    LET at == {i \in 1..Len(s) : s[i] = d}
    IN  IF at = {} THEN 0 ELSE CHOOSE i \in at : \A j \in at : i <= j

\* s.split(d): the list of the d-delimited pieces of s
RECURSIVE SplitOn(_, _)
SplitOn(s, d) ==
    IF FirstAt(s, d) = 0 THEN <<s>>
    ELSE <<SubSeq(s, 1, FirstAt(s, d) - 1)>> \o SplitOn(SubSeq(s, FirstAt(s, d) + 1, Len(s)), d)

\* s.split("/")
Split(s) == SplitOn(s, "/")

\* s.split("/")[-1]
LastPiece(s) == Split(s)[Len(Split(s))]

\* s.rsplit("/", 1)[0]
RsplitHead(s) == IF LastSlash(s) = 0 THEN s ELSE SubSeq(s, 1, LastSlash(s) - 1)

\* c.lower() of one character
LowerChar(c) == IF c = "A" THEN "a" ELSE IF c = "B" THEN "b" ELSE c

\* s.lower()
Lower(s) == [i \in 1..Len(s) |-> LowerChar(s[i])]

\* needle in hay
Contains(hay, needle) ==
    \E i \in 0..(Len(hay) - Len(needle)) : SubSeq(hay, i + 1, i + Len(needle)) = needle

\* hay.endswith(suffix)
EndsWith(hay, suffix) ==
    /\ Len(suffix) <= Len(hay)
    /\ SubSeq(hay, Len(hay) - Len(suffix) + 1, Len(hay)) = suffix

(* ------------------------------- HTTP --------------------------------- *)

\* the status codes an endpoint answers with
Statuses == {200, 300, 404, 503}

\* Response.raise_for_status(): raises for 4xx and 5xx only
RaisesForStatus(status) == 400 <= status /\ status < 600

\* a 2xx answer
IsSuccess(status) == 200 <= status /\ status < 300

\* a request that raised before any answer (connection error, too many redirects)
Unreachable == [reached |-> FALSE]

\* a request record of the network log
Request(method, target, by) == [method |-> method, url |-> target, by |-> by]

\* no request issued yet: the value of the reply variable outside a selector
NoReply == [reached |-> FALSE, none |-> TRUE]

\* what a selector hands back: a (url, fname) pair, or the end of the process
Return(u, f, reqs) == [outcome |-> "return", url |-> u, fname |-> f, code |-> 0, net |-> reqs]

\* sys.exit(code), and an uncaught exception (the interpreter ends with status 1)
Exit(code, reqs) == [outcome |-> "exit", url |-> <<>>, fname |-> <<>>, code |-> code, net |-> reqs]

(* --------------------------- GitHub selector -------------------------- *)

\* the repo arguments tried: every string over one letter and the delimiter
Repos == SeqsUpTo({"a", "/"}, MaxRepoLen)

\* the --file_selector arguments tried
FileSelectors == {<<>>, <<"a">>, <<"A", "B">>, <<"b">>}

\* the asset names of a release
AssetNames == {<<"a">>, <<"A", "b">>, <<"b">>, <<"b", "A">>}

\* one entry of js["assets"]
Asset(name) ==
    [name |-> name, browser_download_url |-> <<"https:", "/", "/", "gh", "/">> \o name]

\* the answers of the releases-latest endpoint: no answer, an answer without a JSON body
\* under any status, or a release under status 200
GithubReplies ==
    {Unreachable}
    \cup {[reached |-> TRUE, status |-> s, json |-> FALSE, assets |-> <<>>] : s \in Statuses}
    \cup {[reached |-> TRUE, status |-> 200, json |-> TRUE, assets |-> a] :
             a \in SeqsUpTo({Asset(n) : n \in AssetNames}, MaxAssets)}

\* AssetMatches without the two lower() calls: the comparison is case-sensitive
AssetMatchesExactCase(file_selector, name) == Contains(name, file_selector)

\* file_selector.lower() in x["name"].lower()
AssetMatches(file_selector, name) == Contains(Lower(name), Lower(file_selector))

\* next(x for x in js["assets"] if ...): index of the first match, 0 for StopIteration
FirstAsset(assets, file_selector) ==
    LET hits == {i \in 1..Len(assets) : AssetMatches(file_selector, assets[i].name)}
    IN  IF hits = {} THEN 0 ELSE CHOOSE i \in hits : \A j \in hits : i <= j

\* f"https://api.github.com/repos/{owner}/{repo_name}/releases/latest"
GithubApiUrl(owner, repo_name) ==
    <<"https:", "/", "/", "api.github.com", "/", "repos", "/">> \o owner \o <<"/">>
        \o repo_name \o <<"/", "releases", "/", "latest">>

get_github_release(repo, file_selector, reply) ==
    LET parts == Split(repo)
        reqs  == <<Request("GET", GithubApiUrl(parts[1], parts[2]), "get_github_release")>>
        k     == FirstAsset(reply.assets, file_selector)
    IN  IF Len(parts) # 2 THEN Exit(1, <<>>)
        ELSE IF ~reply.reached THEN Exit(1, reqs)
        ELSE IF RaisesForStatus(reply.status) THEN Exit(1, reqs)
        ELSE IF ~reply.json THEN Exit(1, reqs)
        ELSE IF k = 0 THEN Exit(1, reqs)
        ELSE Return(reply.assets[k].browser_download_url, reply.assets[k].name, reqs)

(* ---------------------------- JSON selector --------------------------- *)

\* the json_url arguments tried
JsonUrls == {<<"https:", "/", "/", "h", "/", "5.json">>}

\* the --json_selector arguments tried; the option's default is None
JsonSelectors == {"None", "$.url"}

\* the values a manifest holds at the selected path
JsonValues == {<<"https:", "/", "/", "h", "/", "x.rpm">>, <<"https:", "/", "/", "h", "/", "dl", "/">>}

\* the answers of the manifest endpoint; matches is what jsonpath_expr.find(js) finds
JsonReplies ==
    {Unreachable}
    \cup {[reached |-> TRUE, status |-> s, json |-> FALSE, matches |-> <<>>] : s \in Statuses}
    \cup {[reached |-> TRUE, status |-> 200, json |-> TRUE, matches |-> m] :
             m \in SeqsUpTo(JsonValues, MaxLinks)}

get_json_release(json_url, json_selector, reply) ==
    LET reqs == <<Request("GET", json_url, "get_json_release")>>
    IN  IF ~reply.reached THEN Exit(1, reqs)
        ELSE IF RaisesForStatus(reply.status) THEN Exit(1, reqs)
        ELSE IF ~reply.json THEN Exit(1, reqs)
        ELSE IF json_selector = "None" THEN Exit(1, reqs)
        ELSE IF reply.matches = <<>> THEN Exit(1, reqs)
        ELSE Return(reply.matches[1], LastPiece(reply.matches[1]), reqs)

(* ---------------------------- HTML selector --------------------------- *)

\* the page url arguments tried
PageUrls == {<<"https:", "/", "/", "h", "/", "p", "/">>,
             <<"https:", "/", "/", "h", "/", "p", "/", "index.html">>}

\* the --regex_selector arguments tried: a literal, optionally anchored with $
RegexSelectors == {[lit |-> <<"x.rpm">>, anchored |-> TRUE],
                   [lit |-> <<"x.rpm">>, anchored |-> FALSE]}

\* the href attributes a page holds
HRefs == {<<"x.rpm">>, <<"v2", "/", "x.rpm">>, <<"https:", "/", "/", "cdn", "/", "x.rpm">>,
          <<"x.rpm", "/">>, <<"about.html">>}

\* the answers of the page endpoint; hrefs is soup.find_all("a", href=True) in document order
HtmlReplies ==
    {Unreachable}
    \cup {[reached |-> TRUE, status |-> s, hrefs |-> <<>>] : s \in Statuses}
    \cup {[reached |-> TRUE, status |-> 200, hrefs |-> h] : h \in SeqsUpTo(HRefs, MaxLinks)}

\* pattern.search(href)
Search(regex_selector, href) ==
    IF regex_selector.anchored THEN EndsWith(href, regex_selector.lit)
    ELSE Contains(href, regex_selector.lit)

\* the loop over the anchors: index of the first href the pattern finds, 0 for none
FirstLink(hrefs, regex_selector) ==
    LET hits == {i \in 1..Len(hrefs) : Search(regex_selector, hrefs[i])}
    IN  IF hits = {} THEN 0 ELSE CHOOSE i \in hits : \A j \in hits : i <= j

\* url.rsplit("/", 1)[0] + "/" + href
JoinHref(page, href) == RsplitHead(page) \o <<"/">> \o href

get_html_release(page, regex_selector, reply) ==
    LET reqs == <<Request("GET", page, "get_html_release")>>
        k    == FirstLink(reply.hrefs, regex_selector)
    IN  IF ~reply.reached THEN Exit(1, reqs)
        ELSE IF RaisesForStatus(reply.status) THEN Exit(1, reqs)
        ELSE IF k = 0 THEN Exit(1, reqs)
        ELSE Return(JoinHref(page, reply.hrefs[k]), LastPiece(reply.hrefs[k]), reqs)

(* ------------------------- direct URL selector ------------------------ *)

\* the url arguments tried
DirectUrls == {<<"https:", "/", "/", "h", "/", "latest">>}

\* the urls a chain of redirects ends at
FinalUrls == {<<"https:", "/", "/", "h", "/", "latest">>,
              <<"https:", "/", "/", "h", "/", "x.rpm">>,
              <<"https:", "/", "/", "h", "/", "dl", "/">>}

\* the answers to the HEAD request, redirects followed
HeadReplies ==
    {Unreachable}
    \cup {[reached |-> TRUE, status |-> s, url |-> u] : s \in Statuses, u \in FinalUrls}

\* the "url" branch of main: requests.head, resp.url, url.split("/")[-1]
resolve_direct_url(arg_url, reply) ==
    LET reqs == <<Request("HEAD", arg_url, "main")>>
    IN  IF ~reply.reached THEN Exit(1, reqs)
        ELSE Return(reply.url, LastPiece(reply.url), reqs)

(* ------------------------------ versions ------------------------------ *)

\* the version strings tried, installed and candidate alike: 1, 1.0, 1.2, 1.10, 2 and
\* the malformed "1."
VersionStrings == {<<"1">>, <<"1", ".", "0">>, <<"1", ".", "2">>, <<"1", ".", "1", "0">>,
                   <<"2">>, <<"1", ".">>}

\* the decimal digits that occur in the version strings
DigitValue == [c \in {"0", "1", "2"} |-> IF c = "0" THEN 0 ELSE IF c = "1" THEN 1 ELSE 2]

\* int(piece) of a string of digits
RECURSIVE IntOf(_)
IntOf(piece) ==
    IF piece = <<>> THEN 0
    ELSE 10 * IntOf(SubSeq(piece, 1, Len(piece) - 1)) + DigitValue[piece[Len(piece)]]

\* packaging.version.Version(s) accepts s: dot-separated, non-empty runs of digits
\* (the release part of a PEP 440 version; the strings tried carry no other part)
IsVersion(s) ==
    \A i \in 1..Len(SplitOn(s, ".")) :
        /\ SplitOn(s, ".")[i] # <<>>
        /\ \A j \in 1..Len(SplitOn(s, ".")[i]) : SplitOn(s, ".")[i][j] \in DOMAIN DigitValue

\* Version(s).release: the tuple of the numbers
Release(s) == [i \in 1..Len(SplitOn(s, ".")) |-> IntOf(SplitOn(s, ".")[i])]

\* the release as Version's comparison key holds it: trailing zeros dropped
RECURSIVE StripZeros(_)
StripZeros(r) ==
    IF r # <<>> /\ r[Len(r)] = 0 THEN StripZeros(SubSeq(r, 1, Len(r) - 1)) ELSE r

\* Python's tuple order on two comparison keys
TupleLess(a, b) ==
    \E i \in 1..(Len(b)) :
        /\ \A j \in 1..(i - 1) : j <= Len(a) /\ a[j] = b[j]
        /\ (i > Len(a) \/ a[i] < b[i])

\* Version(a) < Version(b)
VersionLess(a, b) == TupleLess(StripZeros(Release(a)), StripZeros(Release(b)))

\* Version(a) == Version(b)
VersionEqual(a, b) == StripZeros(Release(a)) = StripZeros(Release(b))

(* -------------------------- package identity -------------------------- *)

\* Python's None in package_name
NoName == "None"

\* Python's None in rpm_version
NoVersion == <<"None">>

\* `if package_name` / `if not package_name`: None and "" are falsy
Truthy(name) == name # NoName /\ name # ""

\* the (None, None) both inference paths return on failure
Absent == [name |-> NoName, version |-> NoVersion]

\* what rpm.package(file name) can make of a file name: an error, or a name and a version
UrlInferences ==
    {[error |-> TRUE, name |-> NoName, version |-> NoVersion],
     [error |-> FALSE, name |-> "", version |-> <<"1">>]}
    \cup {[error |-> FALSE, name |-> "app", version |-> v] : v \in VersionStrings}

infer_package_name_version_from_url(inferred) ==
    IF inferred.error THEN Absent ELSE [name |-> inferred.name, version |-> inferred.version]

\* the temporary file of the header inspection
TempPath == <<"tmp", "/", "header.tmp">>

\* the file system with content c at path p
Put(d, p, c) == [q \in DOMAIN d \cup {p} |-> IF q = p THEN c ELSE d[q]]

\* the file system without path p
Remove(d, p) == [q \in DOMAIN d \ {p} |-> d[q]]

\* temp_path.unlink(missing_ok=True): removes the file, and raises nothing when it is missing
Unlink(d, p) == [disk |-> Remove(d, p), raised |-> FALSE]

\* how one header inspection goes: where it stops, and what `rpm -qp` prints
KbOutcomes ==
    {[step |-> st, gone |-> FALSE, version |-> NoVersion] :
        st \in {"open_fails", "get_fails", "write_fails"}}
    \cup {[step |-> st, gone |-> g, version |-> NoVersion] :
        st \in {"rpm_fails", "prints_nothing", "prints_other"}, g \in BOOLEAN}
    \cup {[step |-> "prints_name_version", gone |-> g, version |-> v] :
        g \in BOOLEAN, v \in VersionStrings}

\* the result of a header inspection: returned identity or exception, the file system left
\* behind and the requests issued.  `gone`: the file was removed by someone else before the
\* finally clause ran.
infer_package_name_version_from_first_kb(u, d, how) ==
    LET req     == <<Request("GET", u, "infer_package_name_version_from_first_kb")>>
        opened  == Put(d, TempPath, "empty")
        written == Put(d, TempPath, "header")
        atEnd   == IF how.gone THEN Remove(written, TempPath) ELSE written
        cleaned == Unlink(atEnd, TempPath)
    IN  IF how.step = "open_fails"
          THEN [raised |-> TRUE, id |-> Absent, disk |-> d, net |-> <<>>]
        ELSE IF how.step \in {"get_fails", "write_fails"}
          THEN [raised |-> TRUE, id |-> Absent, disk |-> opened, net |-> req]
        ELSE IF cleaned.raised
          THEN [raised |-> TRUE, id |-> Absent, disk |-> cleaned.disk, net |-> req]
        ELSE IF how.step = "prints_name_version"
          THEN [raised |-> FALSE, id |-> [name |-> "app", version |-> how.version],
                disk |-> cleaned.disk, net |-> req]
        ELSE IF how.step = "prints_other"
          THEN [raised |-> TRUE, id |-> Absent, disk |-> cleaned.disk, net |-> req]
        ELSE [raised |-> FALSE, id |-> Absent, disk |-> cleaned.disk, net |-> req]

(* --------------------------- install decision ------------------------- *)

\* the tail of the line rpm prints for a package that is not installed
NotInstalled == <<"not installed">>

\* the stdout lines `rpm -q` can print
QueryLines == VersionStrings \cup {<<"package", "app", "is", "not installed">>}

\* the line lists stdout.splitlines() can give: none, one, two
QueryOutputs ==
    {<<>>} \cup {<<l>> : l \in QueryLines}
    \cup {<<l1, l2>> : l1 \in {<<"1">>, <<"2">>}, l2 \in {<<"1">>, <<"2">>}}

\* CompareVersions with the reinstall flag tested first, so that it also forces the
\* install of an older candidate
CompareVersionsForced(installed_version, rpm_version, reinstall) ==
    IF ~IsVersion(installed_version) \/ ~IsVersion(rpm_version) THEN "InvalidVersion"
    ELSE IF reinstall \/ VersionLess(installed_version, rpm_version) THEN "Install"
    ELSE IF VersionEqual(installed_version, rpm_version) THEN "SkipAlreadyInstalled"
    ELSE "SkipOlderCandidate"

\* the three branches on Version(installed_version) against Version(rpm_version);
\* "InvalidVersion" is the exception Version() raises on a string it cannot parse
CompareVersions(installed_version, rpm_version, reinstall) ==
    IF ~IsVersion(installed_version) \/ ~IsVersion(rpm_version) THEN "InvalidVersion"
    ELSE IF VersionLess(installed_version, rpm_version) THEN "Install"
    ELSE IF VersionEqual(installed_version, rpm_version)
      THEN (IF reinstall THEN "Install" ELSE "SkipAlreadyInstalled")
    ELSE "SkipOlderCandidate"

\* DecideFromQuery reading the first line whenever there is one (`>= 1` for `== 1`)
DecideFromFirstLine(installed_versions, rpm_version, reinstall) ==
    IF Len(installed_versions) >= 1
      THEN IF ~EndsWith(installed_versions[1], NotInstalled)
             THEN CompareVersions(installed_versions[1], rpm_version, reinstall)
             ELSE "Install"
      ELSE "Install"

\* the branches on the lines of the installed-version query
DecideFromQuery(installed_versions, rpm_version, reinstall) ==
    IF Len(installed_versions) = 1
      THEN IF ~EndsWith(installed_versions[1], NotInstalled)
             THEN CompareVersions(installed_versions[1], rpm_version, reinstall)
             ELSE "Install"
      ELSE "Install"

\* `if package_name and rpm_version is not None`: whether the installed version is queried
QueriesInstalled(name, version) == Truthy(name) /\ version # NoVersion

\* ProceedsToInstall with the download and install left outside the `if install:` block
ProceedsAlways(dec) == TRUE

\* `if install:` whether the run goes on to download and install
ProceedsToInstall(dec) == dec = "Install"

(* ------------------------------ download ------------------------------ *)

\* the --directory argument
Directory == <<"dir">>

\* directory / fname; joining an empty name gives the directory itself
PathJoin(dir, name) == IF name = <<>> THEN dir ELSE dir \o <<"/">> \o name

\* SkipsDownload without the redownload test
SkipsDownloadIfExists(d, path, redownload) == path \in DOMAIN d

\* `if path.exists() and not redownload`: the download is skipped
SkipsDownload(d, path, redownload) == path \in DOMAIN d /\ ~redownload

\* the answers to the full GET of download_file
DownloadReplies == {Unreachable} \cup {[reached |-> TRUE, status |-> s] : s \in Statuses}

\* download_file without resp.raise_for_status(): the body of an error answer is written
download_file_unchecked(u, path, d, reply) ==
    LET req == <<Request("GET", u, "download_file")>>
    IN  IF ~reply.reached THEN [raised |-> TRUE, disk |-> d, net |-> req]
        ELSE IF path \in DOMAIN d /\ d[path] = "dir"
          THEN [raised |-> TRUE, disk |-> d, net |-> req]
        ELSE [raised |-> FALSE, disk |-> Put(d, path, "body"), net |-> req]

\* download_file(url, path): the GET, raise_for_status, open(path, "wb"), write
download_file(u, path, d, reply) ==
    LET req == <<Request("GET", u, "download_file")>>
    IN  IF ~reply.reached THEN [raised |-> TRUE, disk |-> d, net |-> req]
        ELSE IF RaisesForStatus(reply.status) THEN [raised |-> TRUE, disk |-> d, net |-> req]
        ELSE IF path \in DOMAIN d /\ d[path] = "dir"
          THEN [raised |-> TRUE, disk |-> d, net |-> req]
        ELSE [raised |-> FALSE, disk |-> Put(d, path, "body"), net |-> req]

(* ------------------------------- state -------------------------------- *)

VARIABLES
    pc,                 \* where main is: "resolve", "infer_url", "infer_kb", "decide",
                        \* "download", "install", "exited"
    args,               \* the parsed arguments of the chosen endpoint
    redownload,         \* args.redownload
    reinstall,          \* args.reinstall
    reply,              \* the answer to the selector's discovery request
    discovery,          \* history: "pending", "ok", or "failed" when the discovery endpoint
                        \* answered non-2xx, was unreachable, or held no match
    url,                \* the resolved download url
    fname,              \* the resolved file name
    package_name,       \* the inferred package name
    rpm_version,        \* the inferred candidate version
    installed_versions, \* the lines of the installed-version query
    decision,           \* "none", "Install", "SkipAlreadyInstalled", "SkipOlderCandidate":
                        \* the value of `install` together with the message printed
    disk,               \* the file system: path -> content
    disk0,              \* history: the file system when the run began
    net,                \* history: the HTTP requests issued, in order
    queries,            \* history: the number of installed-version queries run
    installs,           \* history: the install commands run, with their exit status
    answers,            \* history: the answers to the full GETs of download_file
    exit_code           \* the exit status of the process; -1 while it is running

vars == <<pc, args, redownload, reinstall, reply, discovery, url, fname, package_name,
          rpm_version, installed_versions, decision, disk, disk0, net, queries, installs,
          answers,
          exit_code>>

\* the value of args once it is no longer read
NoArgs == [endpoint |-> "-"]

\* the file names that may already lie in the directory from an earlier run
CachedNames == {<<"x.rpm">>, <<"A", "b">>}

\* the file systems a run can start with: the directory, and any earlier downloads in it
InitialDisks ==
    {[p \in {Directory} \cup {PathJoin(Directory, n) : n \in S} |->
         IF p = Directory THEN "dir" ELSE "old"] : S \in SUBSET CachedNames}

Init ==
    /\ pc = "resolve"
    /\ args = NoArgs
    /\ redownload \in BOOLEAN
    /\ reinstall \in BOOLEAN
    /\ reply = NoReply
    /\ discovery = "pending"
    /\ url = <<>>
    /\ fname = <<>>
    /\ package_name = NoName
    /\ rpm_version = NoVersion
    /\ installed_versions = <<>>
    /\ decision = "none"
    /\ disk \in InitialDisks
    /\ disk0 = disk
    /\ net = <<>>
    /\ queries = 0
    /\ installs = <<>>
    /\ answers = <<>>
    /\ exit_code = -1

(* ------------------------------ resolution ---------------------------- *)

\* A preset (main lines 286-289) only supplies the endpoint and the arguments of one of
\* the four branches below, so it is one of the argument choices of that branch.

\* the discovery request was answered with a 2xx status
Answered2xx(rep) == rep.reached /\ IsSuccess(rep.status)

\* the tail common to the four branches of main's endpoint dispatch: the selector either
\* returns (url, fname) or ends the process
Resolved(a, rep, result, found) ==
    /\ args' = a
    /\ reply' = IF result.net = <<>> THEN NoReply ELSE rep
    /\ net' = net \o result.net
    /\ discovery' = IF result.net # <<>> /\ Answered2xx(rep) /\ found THEN "ok" ELSE "failed"
    /\ IF result.outcome = "return"
         THEN /\ url' = result.url
              /\ fname' = result.fname
              /\ pc' = "infer_url"
              /\ exit_code' = exit_code
         ELSE /\ url' = url
              /\ fname' = fname
              /\ pc' = "exited"
              /\ exit_code' = result.code
    /\ UNCHANGED <<redownload, reinstall, package_name, rpm_version, installed_versions,
                   decision, disk, disk0, answers, queries, installs>>

ResolveGithub ==
    /\ pc = "resolve"
    /\ \E repo \in Repos, file_selector \in FileSelectors, rep \in GithubReplies :
          Resolved([endpoint |-> "github", repo |-> repo, file_selector |-> file_selector],
                   rep, get_github_release(repo, file_selector, rep),
                   rep.json /\ FirstAsset(rep.assets, file_selector) # 0)

ResolveJson ==
    /\ pc = "resolve"
    /\ \E json_url \in JsonUrls, json_selector \in JsonSelectors, rep \in JsonReplies :
          Resolved([endpoint |-> "json", json_url |-> json_url, json_selector |-> json_selector],
                   rep, get_json_release(json_url, json_selector, rep),
                   rep.json /\ json_selector # "None" /\ rep.matches # <<>>)

ResolveUrl ==
    /\ pc = "resolve"
    /\ \E arg_url \in DirectUrls, rep \in HeadReplies :
          Resolved([endpoint |-> "url", url |-> arg_url], rep,
                   resolve_direct_url(arg_url, rep), TRUE)

ResolveHtml ==
    /\ pc = "resolve"
    /\ \E page \in PageUrls, regex_selector \in RegexSelectors, rep \in HtmlReplies :
          Resolved([endpoint |-> "html", url |-> page, regex_selector |-> regex_selector],
                   rep, get_html_release(page, regex_selector, rep),
                   FirstLink(rep.hrefs, regex_selector) # 0)

\* no subcommand given: the else branch of the dispatch
UnknownEndpoint ==
    /\ pc = "resolve"
    /\ args' = [endpoint |-> "None"]
    /\ pc' = "exited"
    /\ exit_code' = 1
    /\ UNCHANGED <<redownload, reinstall, reply, discovery, url, fname, package_name,
                   rpm_version, installed_versions, decision, disk, disk0, answers, net, queries,
                   installs>>

(* ------------------------------ inference ----------------------------- *)

\* main line 305; args and the selector's reply are not read from here on
InferFromUrl ==
    /\ pc = "infer_url"
    /\ \E inferred \in UrlInferences :
          LET id == infer_package_name_version_from_url(inferred)
          IN  /\ package_name' = id.name
              /\ rpm_version' = id.version
              /\ pc' = IF ~Truthy(id.name) THEN "infer_kb" ELSE "decide"
    /\ args' = NoArgs
    /\ reply' = NoReply
    /\ UNCHANGED <<redownload, reinstall, discovery, url, fname, installed_versions, decision,
                   disk, disk0, answers, net, queries, installs, exit_code>>

\* main lines 306-307
InferFromFirstKb ==
    /\ pc = "infer_kb"
    /\ \E how \in KbOutcomes :
          LET r == infer_package_name_version_from_first_kb(url, disk, how)
          IN  /\ disk' = r.disk
              /\ net' = net \o r.net
              /\ IF r.raised
                   THEN /\ pc' = "exited"
                        /\ exit_code' = 1
                        /\ UNCHANGED <<package_name, rpm_version>>
                   ELSE /\ pc' = "decide"
                        /\ exit_code' = exit_code
                        /\ package_name' = r.id.name
                        /\ rpm_version' = r.id.version
    /\ UNCHANGED <<args, redownload, reinstall, reply, discovery, url, fname,
                   installed_versions, decision, disk0, answers, queries, installs>>

(* ------------------------------- decision ----------------------------- *)

\* the tail of main lines 309-342 once the decision is known
Decided(dec) ==
    IF dec = "InvalidVersion"
      THEN decision' = "none" /\ pc' = "exited" /\ exit_code' = 1
    ELSE IF ProceedsToInstall(dec)
      THEN decision' = dec /\ pc' = "download" /\ exit_code' = exit_code
    ELSE decision' = dec /\ pc' = "exited" /\ exit_code' = 0

\* main lines 309-338: the identity is known, the package manager is asked
QueryAndDecide ==
    /\ pc = "decide"
    /\ QueriesInstalled(package_name, rpm_version)
    /\ \E out \in QueryOutputs :
          /\ installed_versions' = out
          /\ Decided(DecideFromQuery(out, rpm_version, reinstall))
    /\ queries' = queries + 1
    /\ UNCHANGED <<args, redownload, reinstall, reply, discovery, url, fname, package_name,
                   rpm_version, disk, disk0, answers, net, installs>>

\* main lines 339-340: no identity, no query
DecideUnknown ==
    /\ pc = "decide"
    /\ ~QueriesInstalled(package_name, rpm_version)
    /\ Decided("Install")
    /\ UNCHANGED <<args, redownload, reinstall, reply, discovery, url, fname, package_name,
                   rpm_version, installed_versions, disk, disk0, answers, net, queries, installs>>

(* -------------------------- download and install ---------------------- *)

\* main lines 343-345: the file is there and redownload is off.  The identity and the
\* query lines are not read from here on.
ReuseFile ==
    /\ pc = "download"
    /\ SkipsDownload(disk, PathJoin(Directory, fname), redownload)
    /\ pc' = "install"
    /\ package_name' = NoName
    /\ rpm_version' = NoVersion
    /\ installed_versions' = <<>>
    /\ UNCHANGED <<args, redownload, reinstall, reply, discovery, url, fname, decision, disk,
                   disk0, answers, net, queries, installs, exit_code>>

\* main lines 346-347
Download ==
    /\ pc = "download"
    /\ ~SkipsDownload(disk, PathJoin(Directory, fname), redownload)
    /\ \E rep \in DownloadReplies :
          LET r == download_file(url, PathJoin(Directory, fname), disk, rep)
          IN  /\ disk' = r.disk
              /\ net' = net \o r.net
              /\ answers' = Append(answers, rep)
              /\ pc' = IF r.raised THEN "exited" ELSE "install"
              /\ exit_code' = IF r.raised THEN 1 ELSE exit_code
    /\ package_name' = NoName
    /\ rpm_version' = NoVersion
    /\ installed_versions' = <<>>
    /\ UNCHANGED <<args, redownload, reinstall, reply, discovery, url, fname, decision, disk0,
                   queries, installs>>

\* the exit status of main after subprocess.call(cmd) returned status
StatusAfterInstall(status) == 0

\* main lines 349-353, and the return from main
Install ==
    /\ pc = "install"
    /\ \E status \in 0..MaxStatus :
          /\ installs' = Append(installs, [path |-> PathJoin(Directory, fname), status |-> status])
          /\ exit_code' = StatusAfterInstall(status)
    /\ pc' = "exited"
    /\ UNCHANGED <<args, redownload, reinstall, reply, discovery, url, fname, package_name,
                   rpm_version, installed_versions, decision, disk, disk0, answers, net, queries>>

Next ==
    \/ ResolveGithub
    \/ ResolveJson
    \/ ResolveUrl
    \/ ResolveHtml
    \/ UnknownEndpoint
    \/ InferFromUrl
    \/ InferFromFirstKb
    \/ QueryAndDecide
    \/ DecideUnknown
    \/ ReuseFile
    \/ Download
    \/ Install

Spec == Init /\ [][Next]_vars

(* ------------------------------ properties ---------------------------- *)

\* the number of full GETs download_file has issued
FullGets == Cardinality({i \in 1..Len(net) : net[i].by = "download_file"})

\* the target path of the run
Target == PathJoin(Directory, fname)

\* the file system outside the temporary file is as the run found it
TargetsUntouched ==
    /\ DOMAIN disk \ {TempPath} = DOMAIN disk0
    /\ \A p \in DOMAIN disk0 : disk[p] = disk0[p]

\* the numbers of a version string, padded with zeros to n places
Padded(v, n) == [i \in 1..n |-> IF i <= Len(Release(v)) THEN Release(v)[i] ELSE 0]

\* dotted numeric order: the first place where the padded numbers differ decides
Older(a, b) ==
    LET n == IF Len(Release(a)) >= Len(Release(b)) THEN Len(Release(a)) ELSE Len(Release(b))
    IN  \E i \in 1..n :
            /\ \A j \in 1..(i - 1) : Padded(a, n)[j] = Padded(b, n)[j]
            /\ Padded(a, n)[i] < Padded(b, n)[i]

C2SkipEndsQuietly ==
    decision \in {"SkipAlreadyInstalled", "SkipOlderCandidate"}
    => /\ pc = "exited"
       /\ exit_code = 0
       /\ FullGets = 0
       /\ TargetsUntouched
       /\ installs = <<>>

\* C2 witness: a skip with redownload set
C2Witness ==
    /\ decision = "SkipAlreadyInstalled"
    /\ redownload
    /\ pc = "exited"
    /\ exit_code = 0

\* C3: after the install command ran, the exit status of the process is the status of the
\* install command, and the command ran once.
C3InstallStatusPropagated ==
    (pc = "exited" /\ installs # <<>>)
    => /\ Len(installs) = 1
       /\ exit_code = installs[1].status

\* C4: on the Install path, when the target existed and redownload is off no full GET is
\* issued and the file system is left as found; otherwise exactly one full GET is issued
\* and, when the install command is reached, the target holds the body of that GET; the
\* install command is given the target path.
C4DownloadCaching ==
    (decision = "Install" /\ pc \in {"install", "exited"})
    => /\ IF Target \in DOMAIN disk0 /\ ~redownload
            THEN FullGets = 0 /\ TargetsUntouched
            ELSE /\ FullGets = 1
                 /\ net[Len(net)] = Request("GET", url, "download_file")
                 /\ (pc = "install" \/ installs # <<>>) => disk[Target] = "body"
       /\ installs # <<>> => installs[1].path = Target

\* C4 witness: the file was there, redownload is set, the file was overwritten and installed
C4Witness ==
    /\ decision = "Install"
    /\ redownload
    /\ Target \in DOMAIN disk0
    /\ disk0[Target] = "old"
    /\ disk[Target] = "body"
    /\ installs # <<>>

\* C5: once infer_package_name_version_from_first_kb has ended, on whatever path, its
\* temporary file does not exist.
C5TempFileRemoved == pc # "infer_kb" => TempPath \notin DOMAIN disk

\* C6: when no determinate comparison is possible the decision is Install and the run goes
\* on, whatever the reinstall flag: (a) no identity was inferred, and then no query is made;
\* (b) the query gives no line or more than one; (c) the one line is the "not installed"
\* sentinel.
C6IndeterminateInstalls ==
    [][ pc = "decide" =>
          /\ ~QueriesInstalled(package_name, rpm_version)
               => /\ decision' = "Install"
                  /\ pc' = "download"
                  /\ exit_code' = -1
                  /\ queries' = queries
          /\ ( /\ QueriesInstalled(package_name, rpm_version)
               /\ \/ Len(installed_versions') # 1
                  \/ EndsWith(installed_versions'[1], NotInstalled) )
               => /\ decision' = "Install"
                  /\ pc' = "download"
                  /\ exit_code' = -1 ]_vars

\* C6 witness: two lines came back, reinstall is off, and the run goes on to download
C6Witness ==
    /\ Len(installed_versions) = 2
    /\ ~reinstall
    /\ decision = "Install"
    /\ pc = "download"

\* C7: when discovery failed (non-2xx answer, unreachable endpoint or no match) no full GET
\* is issued, no install command is run, and the run ends with a non-zero exit code.
C7DiscoveryFailureStops ==
    discovery = "failed"
    => /\ FullGets = 0
       /\ installs = <<>>
       /\ pc = "exited" => exit_code # 0

\* an href with a scheme
IsAbsolute(href) == href # <<>> /\ href[1] = "https:"

\* C8: get_html_release picks the first href the pattern finds; a relative href replaces the
\* last path segment of the page url, an absolute href is the download url unchanged, and
\* with no matching href the run ends with a non-zero exit code.
C8HtmlResolution ==
    ( /\ args.endpoint = "html"
      /\ reply.reached
      /\ ~RaisesForStatus(reply.status) )
    => LET hits == {i \in 1..Len(reply.hrefs) : Search(args.regex_selector, reply.hrefs[i])}
           k    == CHOOSE i \in hits : \A j \in hits : i <= j
           href == reply.hrefs[k]
       IN  IF hits = {} THEN pc = "exited" /\ exit_code # 0
           ELSE /\ pc = "infer_url"
                /\ fname = LastPiece(href)
                /\ url = IF IsAbsolute(href) THEN href
                         ELSE SubSeq(args.url, 1, LastSlash(args.url)) \o href

\* two characters that differ at most in case
SameLetter(c, d) == c = d \/ {c, d} = {"a", "A"} \/ {c, d} = {"b", "B"}

\* needle occurs in hay, case ignored
OccursIgnoringCase(hay, needle) ==
    \E off \in 0..(Len(hay) - Len(needle)) :
        \A i \in 1..Len(needle) : SameLetter(hay[off + i], needle[i])

\* the number of "/" in s
Slashes(s) == Cardinality({i \in 1..Len(s) : s[i] = "/"})

\* C9: get_github_release returns the download url and name of the first asset, in list
\* order, whose name holds the selector as a substring, case ignored; with no such asset the
\* run ends with a non-zero exit code; a repo argument that is not one "/"-delimited pair
\* ends the run with a non-zero exit code before any request is made.
C9GithubSelection ==
    args.endpoint = "github"
    => IF Slashes(args.repo) # 1
         THEN pc = "exited" /\ exit_code # 0 /\ net = <<>>
         ELSE ( /\ reply.reached
                /\ ~RaisesForStatus(reply.status)
                /\ reply.json )
              => LET hits == {i \in 1..Len(reply.assets) :
                                OccursIgnoringCase(reply.assets[i].name, args.file_selector)}
                 IN  IF hits = {} THEN pc = "exited" /\ exit_code # 0
                     ELSE \E k \in hits :
                            /\ \A j \in hits : k <= j
                            /\ pc = "infer_url"
                            /\ url = reply.assets[k].browser_download_url
                            /\ fname = reply.assets[k].name

\* C9 witness: the selector "AB" finds only the second asset, "Ab", and it is returned
C9Witness ==
    /\ args.endpoint = "github"
    /\ pc = "infer_url"
    /\ args.file_selector = <<"A", "B">>
    /\ Len(reply.assets) = 2
    /\ reply.assets[1].name = <<"b">>
    /\ reply.assets[2].name = <<"A", "b">>
    /\ fname = <<"A", "b">>
    /\ url = reply.assets[2].browser_download_url

\* C10: in a run that got past resolution the file name is not empty.
C10FileNameNonEmpty ==
    (pc \in {"infer_url", "infer_kb", "decide", "download", "install"} \/ installs # <<>>)
    => fname # <<>>

\* the place of a step of main in the order resolve, infer, decide, download, install
Rank(p) ==
    CASE p = "resolve" -> 1
      [] p = "infer_url" -> 2
      [] p = "infer_kb" -> 3
      [] p = "decide" -> 4
      [] p = "download" -> 5
      [] p = "install" -> 6
      [] p = "exited" -> 7

\* the number of byte-range GETs the header inspection has issued
RangeGets ==
    Cardinality({i \in 1..Len(net) : net[i].by = "infer_package_name_version_from_first_kb"})

\* a full GET that raised: no answer, or an error status
DownloadFailed(answer) == ~answer.reached \/ RaisesForStatus(answer.status)

\* C11: every step of main moves forward in the order resolve, infer identity, query and
\* decide, download, install.  The url is resolved before anything else is asked; the
\* byte-range GET and the installed-version query come before the decision; the full GET is
\* issued only once the decision is Install, and once at most; the install command runs
\* once at most, after the decision, and only when the target path exists, holding what was
\* found there (reuse) or the whole body of the GET; a full GET that failed ends the run
\* with a non-zero exit code and no install command.
C11StepOrder ==
    [][ /\ Rank(pc') > Rank(pc)
        /\ url' # url => (pc = "resolve" /\ queries = 0 /\ FullGets = 0 /\ installs = <<>>)
        /\ RangeGets' # RangeGets
             => (discovery # "pending" /\ decision = "none" /\ queries = 0 /\ FullGets = 0)
        /\ queries' # queries
             => (discovery # "pending" /\ decision = "none" /\ FullGets = 0 /\ installs = <<>>)
        /\ decision' # decision => (FullGets' = 0 /\ installs' = <<>>)
        /\ FullGets' # FullGets
             => (decision = "Install" /\ FullGets = 0 /\ installs = <<>> /\ installs' = <<>>)
        /\ installs' # installs
             => /\ installs = <<>>
                /\ Len(installs') = 1
                /\ decision = "Install"
                /\ Target \in DOMAIN disk
                /\ disk[Target] = (IF answers = <<>> THEN disk0[Target] ELSE "body")
                /\ answers # <<>> => ~DownloadFailed(answers[1])
                /\ disk' = disk
        /\ (answers' # <<>> /\ DownloadFailed(answers'[1]))
             => (installs' = <<>> /\ pc' = "exited" /\ exit_code' # 0) ]_vars

\* C11 witness: a run that asked the discovery endpoint, fetched the header, queried the
\* installed version, downloaded the file and installed it
C11Witness ==
    /\ Len(net) = 3
    /\ RangeGets = 1
    /\ queries = 1
    /\ FullGets = 1
    /\ answers # <<>>
    /\ Len(installs) = 1
    /\ Target \in DOMAIN disk
    /\ disk[Target] = "body"

====
